---- MODULE Spec2Model ----
(***************************************************************************)
(* Model of src/chart.py: GitHubProjectsBurndownChart.                     *)
(*                                                                         *)
(* One run() of the tool is a state machine: fetch, process, calculate,    *)
(* render (matplotlib), render (plotly), return.  The configuration and    *)
(* the answer the GitHub endpoint gives are drawn in the initial state.    *)
(*                                                                         *)
(* Representation                                                          *)
(*   - a Python str is a sequence of one-character strings, so lower(),    *)
(*     ==, `in`, re.search and float() are computed character by character *)
(*   - None / a missing key is the empty sequence <<>>, a present value v  *)
(*     is <<v>>                                                            *)
(*   - a Python float is a record: a finite value counted in units of      *)
(*     2^-FracBits (division rounds to the nearest unit), or nan, or       *)
(*     +/- inf                                                             *)
(*   - a datetime is a number of ticks, TicksPerDay ticks to the day       *)
(***************************************************************************)
EXTENDS Integers, Sequences, FiniteSets, TLC

\* ------------------------------------------------------------------ bounds
FracBits == 3          \* binary fraction digits kept by a float
TicksPerDay == 2       \* resolution of a datetime
MaxDays == 4           \* latest sprint_end, in days after the epoch
MaxItems == 2          \* items of a project in the general run
MaxFields == 2         \* field values of an item in the story point runs

\* ------------------------------------------------------------- Python str
UpperAlpha == <<"A","B","C","D","E","F","G","H","I","J","K","L","M",
                "N","O","P","Q","R","S","T","U","V","W","X","Y","Z">>
LowerAlpha == <<"a","b","c","d","e","f","g","h","i","j","k","l","m",
                "n","o","p","q","r","s","t","u","v","w","x","y","z">>
Digits == <<"0","1","2","3","4","5","6","7","8","9">>

LowerChar(c) ==
    IF \E i \in DOMAIN UpperAlpha : UpperAlpha[i] = c
    THEN LowerAlpha[CHOOSE i \in DOMAIN UpperAlpha : UpperAlpha[i] = c]
    ELSE c

\* str.lower()
Lower(s) == [i \in DOMAIN s |-> LowerChar(s[i])]

\* a.lower() == b.lower()
EqIgnoreCase(a, b) == Lower(a) = Lower(b)

\* sub in s
Contains(s, sub) ==
    \E i \in 0..(Len(s) - Len(sub)) : SubSeq(s, i + 1, i + Len(sub)) = sub

IsDigit(c) == \E i \in DOMAIN Digits : Digits[i] = c
DigitVal(c) == (CHOOSE i \in DOMAIN Digits : Digits[i] = c) - 1

RECURSIVE Pow(_, _)
Pow(b, n) == IF n = 0 THEN 1 ELSE b * Pow(b, n - 1)

\* the number a run of decimal digits denotes
RECURSIVE DecValue(_)
DecValue(ds) ==
    IF ds = <<>> THEN 0
    ELSE 10 * DecValue(SubSeq(ds, 1, Len(ds) - 1)) + DigitVal(ds[Len(ds)])

\* the longest run of digits of s that starts at position i
RECURSIVE DigitRun(_, _)
DigitRun(s, i) ==
    IF i > Len(s) \/ ~IsDigit(s[i]) THEN <<>>
    ELSE <<s[i]>> \o DigitRun(s, i + 1)

\* ----------------------------------------------------------- Python float
Unit == Pow(2, FracBits)

Fin(n) == [k |-> "fin", v |-> n]
NaN == [k |-> "nan", v |-> 0]
PosInf == [k |-> "inf", v |-> 1]
NegInf == [k |-> "inf", v |-> -1]
F(n) == Fin(n * Unit)                     \* float(n) of an integer n
Zero == Fin(0)

IsFinite(a) == a.k = "fin"

\* n / d rounded to the nearest integer, halves to the even one (d > 0)
RoundDiv(n, d) ==
    LET q == n \div d
        r == n % d
    IN IF 2 * r < d THEN q
       ELSE IF 2 * r > d THEN q + 1
       ELSE IF q % 2 = 0 THEN q ELSE q + 1

\* the float nearest to the decimal  ip.fp  (both runs of digits)
DecFloat(ip, fp) ==
    Fin(DecValue(ip) * Unit + RoundDiv(DecValue(fp) * Unit, Pow(10, Len(fp))))

FNeg(a) == IF a.k = "nan" THEN a ELSE [k |-> a.k, v |-> 0 - a.v]

FAdd(a, b) ==
    IF a.k = "nan" \/ b.k = "nan" THEN NaN
    ELSE IF a.k = "inf" /\ b.k = "inf" THEN (IF a.v = b.v THEN a ELSE NaN)
    ELSE IF a.k = "inf" THEN a
    ELSE IF b.k = "inf" THEN b
    ELSE Fin(a.v + b.v)

FSub(a, b) == FAdd(a, FNeg(b))

\* a * n for an integer n >= 0
FMulInt(a, n) ==
    IF a.k = "nan" THEN NaN
    ELSE IF a.k = "inf" THEN (IF n = 0 THEN NaN ELSE a)
    ELSE Fin(a.v * n)

\* a / n for an integer n >= 1
FDivInt(a, n) ==
    IF a.k = "fin" THEN Fin(RoundDiv(a.v, n)) ELSE a

\* a > b  (False when either is nan)
FGt(a, b) ==
    IF a.k = "nan" \/ b.k = "nan" THEN FALSE
    ELSE IF a.k = "inf" THEN a.v = 1 /\ a # b
    ELSE IF b.k = "inf" THEN b.v = -1
    ELSE a.v > b.v

\* a == b  (False when either is nan)
FEq(a, b) == a.k # "nan" /\ b.k # "nan" /\ a = b

\* a >= b, a <= b
FGe(a, b) == FGt(a, b) \/ FEq(a, b)
FLe(a, b) == FGe(b, a)

\* max(0.0, x): the builtin keeps its first argument unless the second is greater
FMax0(x) == IF FGt(x, Zero) THEN x ELSE Zero

\* float(text): optional sign, then digits with an optional fraction, or
\* nan / inf / infinity in any case; anything else raises ValueError (<<>>)
ParseFloat(text) ==
    LET signed == text # <<>> /\ text[1] \in {"+", "-"}
        neg == signed /\ text[1] = "-"
        body == IF signed THEN SubSeq(text, 2, Len(text)) ELSE text
        ip == DigitRun(body, 1)
        dot == Len(ip) < Len(body) /\ body[Len(ip) + 1] = "."
        fp == IF dot THEN DigitRun(body, Len(ip) + 2) ELSE <<>>
        used == Len(ip) + (IF dot THEN 1 + Len(fp) ELSE 0)
        low == Lower(body)
    IN IF low = <<"n","a","n">> THEN <<NaN>>
       ELSE IF low = <<"i","n","f">> \/ low = <<"i","n","f","i","n","i","t","y">>
       THEN <<IF neg THEN NegInf ELSE PosInf>>
       ELSE IF used = Len(body) /\ Len(ip) + Len(fp) > 0
       THEN <<IF neg THEN FNeg(DecFloat(ip, fp)) ELSE DecFloat(ip, fp)>>
       ELSE <<>>

\* re.search(r"(\d+(\.\d+)?)", name), then float(m.group(1)); <<>> when no match
RECURSIVE FirstNumberFrom(_, _)
FirstNumberFrom(name, i) ==
    IF i > Len(name) THEN <<>>
    ELSE IF IsDigit(name[i])
    THEN LET ip == DigitRun(name, i)
             j == i + Len(ip)
             fp == IF j <= Len(name) /\ name[j] = "." THEN DigitRun(name, j + 1) ELSE <<>>
         IN <<DecFloat(ip, fp)>>
    ELSE FirstNumberFrom(name, i + 1)

FirstNumber(name) == FirstNumberFrom(name, 1)

\* ----------------------------------------------------------- option values
None == <<>>
Some(v) == <<v>>
\* truth value of an optional str: None and "" are both falsy
Truthy(opt) == opt # <<>> /\ opt[1] # <<>>

\* --------------------------------------------------------- _extract_story_points
\* A field value node v is [field, key, str, num]: field is the name of its
\* field ("" when the node has none), key says which payload key the node
\* carries ("name", "text", "number" or "none"), str is the name / text
\* payload and num the optional number payload.
HasNumber(v) == v.key = "number" /\ v.num # None
HasText(v) == v.key = "text" /\ v.str # <<>>
HasName(v) == v.key = "name" /\ v.str # <<>>

\* lines 109-115 and 117-123: what one field value yields, None when it yields nothing
FieldNumber(v) ==
    IF HasNumber(v) THEN Some(v.num[1])
    ELSE IF HasText(v) THEN ParseFloat(v.str)
    ELSE None

FieldNamed(v, fname) == v.field # <<>> /\ EqIgnoreCase(v.field, fname)

\* lines 105-115: the loop over the field values named points_field_name
RECURSIVE NamedScan(_, _, _)
NamedScan(fv, i, pname) ==
    IF i > Len(fv) THEN None
    ELSE IF FieldNamed(fv[i], pname) /\ FieldNumber(fv[i]) # None
    THEN FieldNumber(fv[i])
    ELSE NamedScan(fv, i + 1, pname)

\* lines 116-123: the loop over all field values
RECURSIVE AnyScan(_, _)
AnyScan(fv, i) ==
    IF i > Len(fv) THEN None
    ELSE IF FieldNumber(fv[i]) # None THEN FieldNumber(fv[i])
    ELSE AnyScan(fv, i + 1)

\* lines 124-125: the label names of an item ([] when it has no content or no labels)
ItemLabels(item) == IF item.content = None THEN <<>> ELSE item.content[1].labels

\* lines 126-131: the loop over the labels
RECURSIVE LabelScan(_, _)
LabelScan(labels, i) ==
    IF i > Len(labels) THEN None
    ELSE IF FirstNumber(labels[i]) # None THEN FirstNumber(labels[i])
    ELSE LabelScan(labels, i + 1)

\* Faulty variant: the loop over the named field (lines 104-115) is missing.
ExtractStoryPoints_NoNamedScan(item, points_field_name) ==
    LET fv == item.fieldValues
    IN IF AnyScan(fv, 1) # None THEN AnyScan(fv, 1)[1]
       ELSE IF LabelScan(ItemLabels(item), 1) # None THEN LabelScan(ItemLabels(item), 1)[1]
       ELSE F(1)

ExtractStoryPoints(item, points_field_name) ==
    LET fv == item.fieldValues
        named == IF Truthy(points_field_name)
                 THEN NamedScan(fv, 1, points_field_name[1]) ELSE None
    IN IF named # None THEN named[1]
       ELSE IF AnyScan(fv, 1) # None THEN AnyScan(fv, 1)[1]
       ELSE IF LabelScan(ItemLabels(item), 1) # None THEN LabelScan(ItemLabels(item), 1)[1]
       ELSE F(1)

\* --------------------------------------------------------------- _get_item_sprint
\* The result is a str (isStr, s) or the list of label names (l).
RECURSIVE SprintScan(_, _, _)
SprintScan(fv, i, sprint_field_name) ==
    IF i > Len(fv) THEN None
    ELSE IF Truthy(sprint_field_name) /\ FieldNamed(fv[i], sprint_field_name[1])
            /\ (HasName(fv[i]) \/ HasText(fv[i]))
    THEN Some(fv[i].str)
    ELSE SprintScan(fv, i + 1, sprint_field_name)

GetItemSprint(item, sprint_field_name) ==
    LET hit == SprintScan(item.fieldValues, 1, sprint_field_name)
    IN IF hit # None THEN [isStr |-> TRUE, s |-> hit[1], l |-> <<>>]
       ELSE [isStr |-> FALSE, s |-> <<>>, l |-> ItemLabels(item)]

\* ----------------------------------------------------------- process_project_data
\* Faulty variant: with sprint_field configured, an item that lacks the field
\* falls back to label matching.
Include_FallsBackToLabels(item, sprint_field, sprint_label) ==
    LET item_sprint == GetItemSprint(item, sprint_field)
    IN IF Truthy(sprint_field) /\ item_sprint.isStr
       THEN Truthy(sprint_label)
            /\ Contains(Lower(item_sprint.s), Lower(sprint_label[1]))
       ELSE /\ ~item_sprint.isStr
            /\ IF Truthy(sprint_label)
               THEN \E j \in DOMAIN item_sprint.l :
                        EqIgnoreCase(sprint_label[1], item_sprint.l[j])
               ELSE TRUE

\* lines 178-193: the sprint filter of one item that has a content
Include(item, sprint_field, sprint_label) ==
    LET item_sprint == GetItemSprint(item, sprint_field)
    IN IF Truthy(sprint_field)
       THEN item_sprint.isStr /\ Truthy(sprint_label)
            /\ Contains(Lower(item_sprint.s), Lower(sprint_label[1]))
       ELSE /\ ~item_sprint.isStr
            /\ IF Truthy(sprint_label)
               THEN \E j \in DOMAIN item_sprint.l :
                        EqIgnoreCase(sprint_label[1], item_sprint.l[j])
               ELSE TRUE

\* A raw timestamp is [k, t]: k is "none" (null), "bad" (a string that
\* datetime.fromisoformat rejects) or "ts" (a well-formed one, t its ticks).
NoTs == [k |-> "none", t |-> 0]
BadTs == [k |-> "bad", t |-> 0]
Ts(t) == [k |-> "ts", t |-> t]

\* lines 198-203: one try block parses both; a failure of either clears both
ParseTimestamps(created, closed) ==
    IF created.k = "bad" \/ closed.k = "bad"
    THEN [created_dt |-> None, closed_dt |-> None]
    ELSE [created_dt |-> IF created.k = "ts" THEN Some(created.t) ELSE None,
          closed_dt |-> IF closed.k = "ts" THEN Some(closed.t) ELSE None]

\* lines 195-211: the entry of an included item
Entry(item, points_field) ==
    LET content == item.content[1]
        dt == ParseTimestamps(content.createdAt, content.closedAt)
    IN [title |-> content.title,
        story_points |-> ExtractStoryPoints(item, points_field),
        created_at |-> dt.created_dt,
        closed_at |-> dt.closed_dt,
        state |-> content.state]

\* lines 174-177, 192-193: whether the loop keeps the item
Keeps(item, cfg) ==
    item.content # None /\ Include(item, cfg.sprint_field, cfg.sprint_label)

\* Faulty variant: total_points grows before the sprint filter is applied.
RECURSIVE ProcessLoop_CountsExcluded(_, _, _, _, _)
ProcessLoop_CountsExcluded(items, i, cfg, filtered, total_points) ==
    IF i > Len(items) THEN [items |-> filtered, total_points |-> total_points]
    ELSE IF items[i].content = None
    THEN ProcessLoop_CountsExcluded(items, i + 1, cfg, filtered, total_points)
    ELSE LET entry == Entry(items[i], cfg.points_field)
             total == FAdd(total_points, entry.story_points)
         IN IF Keeps(items[i], cfg)
            THEN ProcessLoop_CountsExcluded(items, i + 1, cfg, Append(filtered, entry), total)
            ELSE ProcessLoop_CountsExcluded(items, i + 1, cfg, filtered, total)

\* lines 171-213: the loop over the items, from item i on, with the
\* accumulators filtered and total_points
RECURSIVE ProcessLoop(_, _, _, _, _)
ProcessLoop(items, i, cfg, filtered, total_points) ==
    IF i > Len(items) THEN [items |-> filtered, total_points |-> total_points]
    ELSE IF ~Keeps(items[i], cfg)
    THEN ProcessLoop(items, i + 1, cfg, filtered, total_points)
    ELSE LET entry == Entry(items[i], cfg.points_field)
         IN ProcessLoop(items, i + 1, cfg, Append(filtered, entry),
                        FAdd(total_points, entry.story_points))

\* A raw response body is [kind, errors, extra, data]: kind is "notjson",
\* "null", "list" or "object"; for an object, errors says whether it has an
\* "errors" key, extra whether it has any other key besides "data", and data
\* is the optional value of "data": [key, project], the one container key it
\* holds and that container's optional projectV2.
\* The result is [kind, val]: kind "ok" with the ProjectSnapshot, "none" for
\* the None return, "raise" for an exception.
ProcessProjectData(raw, cfg) ==
    IF raw.kind # "object" \/ raw.data = None
    THEN [kind |-> "none", val |-> None]
    ELSE LET data == raw.data[1]
             project == IF data.key = cfg.project_type THEN data.project ELSE None
         IN IF project = None
            THEN [kind |-> "none", val |-> None]
            ELSE LET r == ProcessLoop(project[1].items, 1, cfg, <<>>, Zero)
                 IN [kind |-> "ok",
                     val |-> Some([project_name |-> project[1].title,
                                   items |-> r.items,
                                   total_points |-> r.total_points,
                                   sprint_start |-> cfg.sprint_start,
                                   sprint_end |-> cfg.sprint_end])]

\* -------------------------------------------------------- calculate_burndown_data
\* datetime.date() as a day number, timedelta.days (both floor)
DateOf(t) == t \div TicksPerDay
WholeDays(delta) == delta \div TicksPerDay
Day(n) == n * TicksPerDay
Max(a, b) == IF a >= b THEN a ELSE b

\* Faulty variant: an item counts as done only after the day it was closed on.
RECURSIVE Done_AfterClosingDay(_, _, _, _)
Done_AfterClosingDay(items, i, current, acc) ==
    IF i > Len(items) THEN acc
    ELSE LET it == items[i]
         IN IF it.closed_at # None /\ DateOf(it.closed_at[1]) < DateOf(current)
            THEN Done_AfterClosingDay(items, i + 1, current, FAdd(acc, it.story_points))
            ELSE Done_AfterClosingDay(items, i + 1, current, acc)

\* line 237: sum(story_points of the items closed on or before the date of
\* current), from item i on, acc the sum so far
RECURSIVE Done(_, _, _, _)
Done(items, i, current, acc) ==
    IF i > Len(items) THEN acc
    ELSE LET it == items[i]
         IN IF it.closed_at # None /\ DateOf(it.closed_at[1]) <= DateOf(current)
            THEN Done(items, i + 1, current, FAdd(acc, it.story_points))
            ELSE Done(items, i + 1, current, acc)

\* Faulty variant: the loop stops before sprint_end (current < sprint_end).
RECURSIVE BurnLoop_ExclusiveEnd(_, _, _, _, _)
BurnLoop_ExclusiveEnd(pdata, total_points, daily, current, acc) ==
    IF current >= pdata.sprint_end THEN acc
    ELSE LET done == Done(pdata.items, 1, current, Zero)
             rem == FMax0(FSub(total_points, done))
             elapsed == WholeDays(current - pdata.sprint_start)
             ideal_rem == FMax0(FSub(total_points, FMulInt(daily, elapsed)))
         IN BurnLoop_ExclusiveEnd(pdata, total_points, daily, current + TicksPerDay,
                     [dates |-> Append(acc.dates, current),
                      remaining |-> Append(acc.remaining, rem),
                      ideal |-> Append(acc.ideal, ideal_rem),
                      total_points |-> total_points])

\* lines 235-243: the while loop from current on, with the lists built so far
RECURSIVE BurnLoop(_, _, _, _, _)
BurnLoop(pdata, total_points, daily, current, acc) ==
    IF current > pdata.sprint_end THEN acc
    ELSE LET done == Done(pdata.items, 1, current, Zero)
             rem == FMax0(FSub(total_points, done))
             elapsed == WholeDays(current - pdata.sprint_start)
             ideal_rem == FMax0(FSub(total_points, FMulInt(daily, elapsed)))
         IN BurnLoop(pdata, total_points, daily, current + TicksPerDay,
                     [dates |-> Append(acc.dates, current),
                      remaining |-> Append(acc.remaining, rem),
                      ideal |-> Append(acc.ideal, ideal_rem),
                      total_points |-> total_points])

\* Faulty variant: days counts the dates of the sprint, not the intervals.
CalculateBurndownData_DaysCountsDates(pdata, planned_points) ==
    LET total_points == IF planned_points # None THEN planned_points[1]
                        ELSE pdata.total_points
        days == Max(1, WholeDays(pdata.sprint_end - pdata.sprint_start) + 1)
        daily == FDivInt(total_points, days)
    IN BurnLoop(pdata, total_points, daily, pdata.sprint_start,
                [dates |-> <<>>, remaining |-> <<>>, ideal |-> <<>>,
                 total_points |-> total_points])

CalculateBurndownData(pdata, planned_points) ==
    LET total_points == IF planned_points # None THEN planned_points[1]
                        ELSE pdata.total_points
        days == Max(1, WholeDays(pdata.sprint_end - pdata.sprint_start))
        daily == FDivInt(total_points, days)
    IN BurnLoop(pdata, total_points, daily, pdata.sprint_start,
                [dates |-> <<>>, remaining |-> <<>>, ideal |-> <<>>,
                 total_points |-> total_points])

\* --------------------------------------------------------------- get_project_data
\* The answer of the endpoint is [status, body]; status 0 stands for
\* requests.post itself raising (no answer at all).
HasErrors(body) == body.kind = "object" /\ body.errors

\* Faulty variant: the "errors" key of a 200 answer is not looked at.
GetProjectData_IgnoresErrors(resp) ==
    IF resp.status = 0
    THEN [kind |-> "raise", val |-> None, exc |-> "ConnectionError"]
    ELSE IF resp.body.kind = "notjson"
    THEN [kind |-> "raise", val |-> None,
          exc |-> IF resp.status >= 400 THEN "HTTPError" ELSE "UnboundLocalError"]
    ELSE IF resp.status # 200
    THEN IF resp.body.kind = "object"
         THEN [kind |-> "none", val |-> None, exc |-> ""]
         ELSE [kind |-> "raise", val |-> None, exc |-> "AttributeError"]
    ELSE [kind |-> "data", val |-> Some(resp.body), exc |-> ""]

\* The result is [kind, val, exc]: kind "data" with the decoded body, "none"
\* for the None return, "raise" with the exception's name.
GetProjectData(resp) ==
    IF resp.status = 0
    THEN [kind |-> "raise", val |-> None, exc |-> "ConnectionError"]
    ELSE IF resp.body.kind = "notjson"
    THEN \* resp.json() raised: raise_for_status() raises for 4xx/5xx, and
         \* otherwise returns, leaving data unbound at line 97
         [kind |-> "raise", val |-> None,
          exc |-> IF resp.status >= 400 THEN "HTTPError" ELSE "UnboundLocalError"]
    ELSE IF resp.status # 200
    THEN IF resp.body.kind = "object"
         THEN [kind |-> "none", val |-> None, exc |-> ""]
         ELSE \* data.get of a value that is no dict
              [kind |-> "raise", val |-> None, exc |-> "AttributeError"]
    ELSE IF resp.body.kind = "null"
    THEN \* "errors" in None
         [kind |-> "raise", val |-> None, exc |-> "TypeError"]
    ELSE IF HasErrors(resp.body)
    THEN [kind |-> "none", val |-> None, exc |-> ""]
    ELSE [kind |-> "data", val |-> Some(resp.body), exc |-> ""]

\* not raw (line 287) of a decoded body: {} and [] are falsy
Falsy(body) == ~body.errors /\ ~body.extra /\ body.data = None

\* ------------------------------------------------------------------------- run
VARIABLES
    config,      \* self.config
    server,      \* what the endpoint answers to the query of this run
    pc,          \* position of run()
    raw,         \* run's raw
    pdata,       \* run's pdata
    burndown,    \* run's burndown
    net_calls,   \* requests.post calls made
    calls,       \* the methods run() has called, in order
    fetch_out,   \* how get_project_data ended: "", "data", "none" or "raise"
    error        \* the exception run() ended with, "" when none

vars == <<config, server, pc, raw, pdata, burndown, net_calls, calls, fetch_out, error>>

FetchFailed == "RuntimeError: Failed to fetch project data from GitHub API"
NoProject == "RuntimeError: No project items matched the sprint filter or project response unexpected"

\* lines 286-288
Run_Fetch ==
    /\ pc = "start"
    /\ LET r == GetProjectData(server)
       IN /\ fetch_out' = r.kind
          /\ IF r.kind = "data" /\ ~Falsy(r.val[1])
             THEN raw' = r.val /\ pc' = "fetched" /\ error' = error
             ELSE /\ raw' = raw
                  /\ pc' = "failed"
                  /\ error' = IF r.kind = "raise" THEN r.exc ELSE FetchFailed
    /\ net_calls' = net_calls + 1
    /\ calls' = Append(calls, "get_project_data")
    /\ UNCHANGED <<config, server, pdata, burndown>>

\* lines 289-291: a dict with keys is truthy, so only the None return fails
Run_Process ==
    /\ pc = "fetched"
    /\ LET r == ProcessProjectData(raw[1], config)
       IN IF r.kind = "ok"
          THEN pdata' = r.val /\ pc' = "processed" /\ error' = error
          ELSE pdata' = pdata /\ pc' = "failed" /\ error' = NoProject
    /\ calls' = Append(calls, "process_project_data")
    /\ UNCHANGED <<config, server, raw, burndown, net_calls, fetch_out>>

\* line 292
Run_Calculate ==
    /\ pc = "processed"
    /\ burndown' = Some(CalculateBurndownData(pdata[1], config.planned_points))
    /\ pc' = "calculated"
    /\ calls' = Append(calls, "calculate_burndown_data")
    /\ UNCHANGED <<config, server, raw, pdata, net_calls, fetch_out, error>>

\* lines 294-295
Run_Matplotlib ==
    /\ pc = "calculated"
    /\ calls' = IF config.chart_type \in {"matplotlib", "both"}
                THEN Append(calls, "create_matplotlib_chart") ELSE calls
    /\ pc' = "matplotlib_done"
    /\ UNCHANGED <<config, server, raw, pdata, burndown, net_calls, fetch_out, error>>

\* lines 296-297
Run_Plotly ==
    /\ pc = "matplotlib_done"
    /\ calls' = IF config.chart_type \in {"plotly", "both"}
                THEN Append(calls, "create_plotly_chart") ELSE calls
    /\ pc' = "plotly_done"
    /\ UNCHANGED <<config, server, raw, pdata, burndown, net_calls, fetch_out, error>>

\* line 298
Run_Return ==
    /\ pc = "plotly_done"
    /\ pc' = "done"
    /\ UNCHANGED <<config, server, raw, pdata, burndown, net_calls, calls, fetch_out, error>>

Next ==
    \/ Run_Fetch
    \/ Run_Process
    \/ Run_Calculate
    \/ Run_Matplotlib
    \/ Run_Plotly
    \/ Run_Return

\* the state of a run before its first step, for a configuration and an answer
Start(cfg, resp) ==
    /\ config = cfg
    /\ server = resp
    /\ pc = "start"
    /\ raw = None
    /\ pdata = None
    /\ burndown = None
    /\ net_calls = 0
    /\ calls = <<>>
    /\ fetch_out = ""
    /\ error = ""

\* ------------------------------------------------------------------ input values
SeqsUpTo(S, n) == UNION {[1..k -> S] : k \in 0..n}

\* label names, sprint labels and sprint field values
S3 == <<"S","3">>
S3Lower == <<"s","3">>
S30 == <<"S","3","0">>
XS30 == <<"x","s","3","0">>
S2 == <<"S","2">>
Bug == <<"b","u","g">>
V15 == <<"v","1",".","5">>
\* field names
SprintName == <<"S","p">>
SprintNameUpper == <<"S","P">>
PointsName == <<"P","t">>
PointsNameLower == <<"p","t">>
PriorityName == <<"P","r">>
Empty == <<>>

NumberValue(field, num) == [field |-> field, key |-> "number", str |-> <<>>, num |-> num]
TextValue(field, text) == [field |-> field, key |-> "text", str |-> text, num |-> None]
SelectValue(field, name) == [field |-> field, key |-> "name", str |-> name, num |-> None]
OtherValue == [field |-> <<>>, key |-> "none", str |-> <<>>, num |-> None]

Content(title, labels, closedAt) ==
    [title |-> title, state |-> IF closedAt = NoTs THEN "OPEN" ELSE "CLOSED",
     createdAt |-> Ts(0), closedAt |-> closedAt, labels |-> labels]
Item(content, fv) == [content |-> content, fieldValues |-> fv]

Cfg(start, end, label, sfield, pfield, planned, chart, ptype) ==
    [sprint_start |-> start, sprint_end |-> end, sprint_label |-> label,
     sprint_field |-> sfield, points_field |-> pfield, planned_points |-> planned,
     chart_type |-> chart, project_type |-> ptype]

NotJson == [kind |-> "notjson", errors |-> FALSE, extra |-> FALSE, data |-> None]
NullBody == [kind |-> "null", errors |-> FALSE, extra |-> FALSE, data |-> None]
ListBody(nonempty) == [kind |-> "list", errors |-> FALSE, extra |-> nonempty, data |-> None]
ObjectBody(errors, extra, data) ==
    [kind |-> "object", errors |-> errors, extra |-> extra, data |-> data]
Project(items) == [title |-> "Board", items |-> items]
Data(key, project) == [key |-> key, project |-> project]
\* the answer a found project gives
Found(items) ==
    [status |-> 200,
     body |-> ObjectBody(FALSE, FALSE, Some(Data("organization", Some(Project(items)))))]

\* ------------------------------------------------- Spec: the run and its failures
RunItems ==
    { Item(Some(Content("a", <<S3, Bug>>, Ts(Day(1)))), <<>>),
      Item(Some(Content("b", <<S2>>, NoTs)), <<>>),
      Item(None, <<>>) }

RunBodies ==
    {NotJson, NullBody, ListBody(FALSE), ListBody(TRUE)}
    \cup { ObjectBody(e, x, d) :
             e \in BOOLEAN, x \in BOOLEAN,
             d \in {None}
                   \cup { Some(Data(key, None)) : key \in {"organization", "repository"} }
                   \cup { Some(Data(key, Some(Project(items)))) :
                            key \in {"organization", "repository"},
                            items \in SeqsUpTo(RunItems, MaxItems) } }

RunAnswers ==
    {[status |-> 0, body |-> NotJson]}
    \cup { [status |-> st, body |-> b] : st \in {200, 401, 502}, b \in RunBodies }

RunConfigs ==
    { Cfg(0, Day(1), label, None, None, None, chart, ptype) :
        label \in {None, Some(S3)},
        chart \in {"matplotlib", "plotly", "both"},
        ptype \in {"organization", "repository"} }

Init == \E cfg \in RunConfigs, resp \in RunAnswers : Start(cfg, resp)

Spec == Init /\ [][Next]_vars

\* ------------------------------------------- SpecPoints: story point resolution
PointValues ==
    { NumberValue(PointsName, Some(F(3))),
      NumberValue(PriorityName, Some(F(5))),
      NumberValue(PriorityName, Some(F(-2))),
      NumberValue(PointsName, None),
      TextValue(SprintNameUpper, <<"2",".","5">>),
      TextValue(PointsName, <<"a","b","c">>),
      TextValue(PointsName, <<"8">>),
      TextValue(PriorityName, <<"n","a","n">>),
      TextValue(PriorityName, <<"I","n","f">>),
      TextValue(PriorityName, Empty),
      SelectValue(PointsName, <<"7">>),
      OtherValue }

PointLabels == { <<>>, <<Bug>>, <<Bug, S3, V15>>, <<V15>> }

PointConfigs ==
    { Cfg(0, Day(1), None, None, pfield, None, "both", "organization") :
        pfield \in {None, Some(Empty), Some(PointsNameLower)} }

PointAnswers ==
    { Found(<<Item(Some(Content("a", labels, NoTs)), fv)>>) :
        labels \in PointLabels, fv \in SeqsUpTo(PointValues, MaxFields) }

InitPoints == \E cfg \in PointConfigs, resp \in PointAnswers : Start(cfg, resp)

SpecPoints == InitPoints /\ [][Next]_vars

\* ------------------------------------------------ SpecSprint: the sprint filter
ItemB == Item(Some(Content("b", <<S3, Bug>>, NoTs)), <<>>)
ItemC == Item(Some(Content("c", <<S2>>, NoTs)), <<>>)
ItemE == Item(Some(Content("e", <<S30>>, NoTs)), <<>>)

SprintItems ==
    { Item(None, <<SelectValue(SprintName, S3)>>),
      ItemB,
      ItemC,
      Item(Some(Content("d", <<Bug, S3Lower>>, NoTs)), <<>>),
      ItemE,
      Item(Some(Content("f", <<>>, NoTs)), <<SelectValue(SprintName, S3)>>),
      Item(Some(Content("g", <<S2>>, NoTs)), <<OtherValue, TextValue(SprintNameUpper, XS30)>>),
      Item(Some(Content("h", <<S3>>, NoTs)), <<SelectValue(SprintName, S2)>>),
      Item(Some(Content("i", <<S3>>, NoTs)), <<NumberValue(SprintName, Some(F(3)))>>),
      Item(Some(Content("j", <<>>, NoTs)),
           <<SelectValue(SprintName, Empty), TextValue(SprintName, S3)>>),
      Item(Some(Content("k", <<>>, NoTs)), <<SelectValue(PriorityName, S3)>>) }

SprintConfigs ==
    { Cfg(0, Day(1), label, sfield, None, None, "both", "organization") :
        label \in {None, Some(Empty), Some(S3)},
        sfield \in {None, Some(Empty), Some(SprintName)} }

SprintAnswers == { Found(items) : items \in SeqsUpTo(SprintItems, MaxItems) }

InitSprint == \E cfg \in SprintConfigs, resp \in SprintAnswers : Start(cfg, resp)

SpecSprint == InitSprint /\ [][Next]_vars

\* ------------------------------------------------- SpecBurn: the burndown series
Closed(title, points, closedAt) ==
    Item(Some(Content(title, <<>>, closedAt)), <<points>>)

BurnItems ==
    { Closed("a", NumberValue(PointsName, Some(F(4))), Ts(Day(2))),
      Closed("b", NumberValue(PointsName, Some(F(4))), Ts(Day(2) + 1)),
      Closed("c", NumberValue(PointsName, Some(F(3))), NoTs),
      Closed("d", NumberValue(PointsName, Some(F(-2))), Ts(Day(1))),
      Closed("e", OtherValue, Ts(-1)),
      Closed("f", TextValue(PointsName, <<"i","n","f">>), Ts(Day(3))),
      Closed("g", NumberValue(PointsName, Some(F(2))), BadTs) }

BurnConfigs ==
    { Cfg(start, end, None, None, None, planned, "both", "organization") :
        start \in {0, 1, Day(2)},
        end \in 0..Day(MaxDays),
        planned \in {None, Some(F(10)), Some(Zero), Some(F(-5))} }

BurnAnswers == { Found(items) : items \in SeqsUpTo(BurnItems, MaxItems) }

InitBurn == \E cfg \in BurnConfigs, resp \in BurnAnswers : Start(cfg, resp)

SpecBurn == InitBurn /\ [][Next]_vars

\* ======================================================================= claims
Renders == {"create_matplotlib_chart", "create_plotly_chart"}
Called(m) == \E i \in DOMAIN calls : calls[i] = m
Rendered == \E m \in Renders : Called(m)

\* the items of the project the answer holds (the answer of a found project)
AnswerItems == server.body.data[1].project[1].items

\* ---- C1 (under Spec)
\* the fetch succeeded, the project was found and the filter kept no item
FilterEmpty ==
    /\ raw # None
    /\ Called("process_project_data")
    /\ ProcessProjectData(raw[1], config).kind = "ok"
    /\ ProcessProjectData(raw[1], config).val[1].items = <<>>

\* C1: whenever the fetch succeeds and the project is found but the sprint
\* filter keeps no item, run() aborts with a failure and renders no chart.
C1_FilterEmptyIsFatal ==
    FilterEmpty => (pc = "failed" /\ error # "" /\ ~Rendered)

\* ---- C2 (under Spec)
\* the endpoint answered with a status other than 200 or with an errors list
ErrorAnswer == (server.status # 0 /\ server.status # 200) \/ HasErrors(server.body)

AbortedAfterFetch == pc = "failed" /\ error # "" /\ calls = <<"get_project_data">>

\* at most one network call, and a render only after a successful fetch and
\* a successful process step
OneCallAndOrder ==
    /\ net_calls <= 1
    /\ \A i \in DOMAIN calls :
         calls[i] \in Renders =>
           /\ fetch_out = "data" /\ raw # None /\ pdata # None
           /\ \E j \in 1..(i - 1) : calls[j] = "get_project_data"
           /\ \E j \in 1..(i - 1) : calls[j] = "process_project_data"

\* C2 as stated: on an error answer get_project_data returns None, run()
\* aborts and no later stage is reached; one network call at most, renders
\* only after a successful fetch and process.
C2_FetchFailureReturnsNone ==
    /\ (ErrorAnswer /\ pc # "start") => (fetch_out = "none" /\ AbortedAfterFetch)
    /\ OneCallAndOrder

\* C2 (amended): on an error answer get_project_data never returns data: it
\* returns None when the body is a JSON object and raises otherwise; either
\* way run() aborts with a failure after the fetch and no later stage is
\* reached.  One network call at most, renders only after a successful
\* fetch and process.
C2_FetchFailureAborts ==
    /\ (ErrorAnswer /\ pc # "start") =>
         /\ fetch_out = (IF server.body.kind = "object" THEN "none" ELSE "raise")
         /\ AbortedAfterFetch
    /\ OneCallAndOrder

\* Scenario C: a 200 answer whose body has an errors list beside the project's data
C2_Witness ==
    /\ server.status = 200 /\ HasErrors(server.body)
    /\ server.body.data # None /\ server.body.data[1].project # None
    /\ fetch_out = "none" /\ pc = "failed"

\* ---- C4 (under SpecPoints)
\* C4: the story_points of every NormalizedItem is finite and >= 0.
C4_PointsFiniteNonNegative ==
    pdata # None =>
      \A i \in DOMAIN pdata[1].items :
        LET sp == pdata[1].items[i].story_points
        IN IsFinite(sp) /\ sp.v >= 0

\* ---- C8 (under SpecPoints)
MinOf(S) == CHOOSE m \in S : \A n \in S : m <= n

\* the resolution order as the claim states it
ResolvedPoints(item, pfield) ==
    LET fv == item.fieldValues
        labels == item.content[1].labels
        yields == {i \in DOMAIN fv : FieldNumber(fv[i]) # None}
        named == {i \in yields : Truthy(pfield) /\ fv[i].field # <<>>
                                 /\ Lower(fv[i].field) = Lower(pfield[1])}
        numbered == {j \in DOMAIN labels : FirstNumber(labels[j]) # None}
    IN IF named # {} THEN FieldNumber(fv[MinOf(named)])[1]
       ELSE IF yields # {} THEN FieldNumber(fv[MinOf(yields)])[1]
       ELSE IF numbered # {} THEN FirstNumber(labels[MinOf(numbered)])[1]
       ELSE F(1)

\* C8: story points resolve first-match-wins: the named field, else the first
\* field value with a number or a parsable text, else the first number in a
\* label, else 1.0; a named numeric field wins over any other numeric field
\* wherever it stands.
C8_ResolutionOrder ==
    pdata # None =>
      LET item == AnswerItems[1]
          fv == item.fieldValues
          sp == pdata[1].items[1].story_points
      IN /\ sp = ResolvedPoints(item, config.points_field)
         /\ \A i \in DOMAIN fv :
              ( /\ Truthy(config.points_field)
                /\ FieldNamed(fv[i], config.points_field[1]) /\ HasNumber(fv[i])
                /\ \A j \in 1..(i - 1) :
                     ~(FieldNamed(fv[j], config.points_field[1]) /\ FieldNumber(fv[j]) # None) )
              => sp = fv[i].num[1]
         /\ ( (\A i \in DOMAIN fv : FieldNumber(fv[i]) = None)
              /\ (\A j \in DOMAIN item.content[1].labels :
                     FirstNumber(item.content[1].labels[j]) = None) )
            => sp = F(1)

\* Scenario D with the unrelated numeric field first
C8_Witness ==
    /\ pc = "done"
    /\ config.points_field = Some(PointsNameLower)
    /\ AnswerItems[1].fieldValues =
         <<NumberValue(PriorityName, Some(F(5))), NumberValue(PointsName, Some(F(3)))>>
    /\ pdata[1].items[1].story_points = F(3)

\* ---- C9 (under SpecSprint)
Configured(opt) == opt # None /\ Len(opt[1]) > 0

\* sprint membership as the claim states it
Member(item, cfg) ==
    /\ item.content # None
    /\ IF Configured(cfg.sprint_field)
       THEN LET fv == item.fieldValues
                tagged == {i \in DOMAIN fv :
                             /\ Lower(fv[i].field) = Lower(cfg.sprint_field[1])
                             /\ fv[i].key \in {"name", "text"} /\ fv[i].str # <<>>}
            IN /\ Configured(cfg.sprint_label)
               /\ tagged # {}
               /\ Contains(Lower(fv[MinOf(tagged)].str), Lower(cfg.sprint_label[1]))
       ELSE \/ ~Configured(cfg.sprint_label)
            \/ \E name \in {item.content[1].labels[j] : j \in DOMAIN item.content[1].labels} :
                 Lower(name) = Lower(cfg.sprint_label[1])

IsMember(item) == Member(item, config)
Titles(items) == [i \in DOMAIN items |-> items[i].title]
ContentTitles(items) == [i \in DOMAIN items |-> items[i].content[1].title]

\* C9: an item without content is excluded; with sprint_field configured an
\* item is included iff sprint_label is configured and is a case-insensitive
\* substring of the value of its sprint field (no fallback to labels); with
\* no sprint_field it is included iff sprint_label is unset or equals one of
\* its labels ignoring case.
C9_SprintMembership ==
    pdata # None =>
      Titles(pdata[1].items) = ContentTitles(SelectSeq(AnswerItems, IsMember))

\* Scenario B: label "S3", an item labelled S3 and bug is kept, one labelled S2 is not
C9_Witness ==
    /\ pc = "done"
    /\ config.sprint_field = None /\ config.sprint_label = Some(S3)
    /\ AnswerItems = <<ItemC, ItemB>>
    /\ Titles(pdata[1].items) = <<"b">>

\* ---- C10 (under SpecSprint)
RECURSIVE SumPoints(_)
SumPoints(entries) ==
    IF entries = <<>> THEN Zero
    ELSE FAdd(SumPoints(SubSeq(entries, 1, Len(entries) - 1)),
              entries[Len(entries)].story_points)

IsKept(item) == Keeps(item, config)
EntryOf(items) == [i \in DOMAIN items |-> Entry(items[i], config.points_field)]

\* C10: total_points is the sum of story_points over exactly the items of
\* the returned list, which holds the included items once each, in input order.
C10_TotalIsSumOfIncluded ==
    pdata # None =>
      /\ pdata[1].total_points = SumPoints(pdata[1].items)
      /\ pdata[1].items = EntryOf(SelectSeq(AnswerItems, IsKept))

\* one item kept of two, the excluded one carrying points of its own
C10_Witness ==
    /\ pc = "done"
    /\ config.sprint_field = None /\ config.sprint_label = Some(S3)
    /\ AnswerItems = <<ItemE, ItemB>>
    /\ Titles(pdata[1].items) = <<"b">>
    /\ pdata[1].total_points = F(3)

\* ---- C3 (under SpecBurn)
\* Scenario A: sprint Day 0 .. Day 4, planned_points 10, one item of 4 points
\* closed on Day 2
ScenarioA ==
    /\ burndown # None
    /\ config.sprint_start = Day(0) /\ config.sprint_end = Day(4)
    /\ config.planned_points = Some(F(10))
    /\ Len(pdata[1].items) = 1
    /\ pdata[1].items[1].story_points = F(4)
    /\ pdata[1].items[1].closed_at # None
    /\ DateOf(pdata[1].items[1].closed_at[1]) = 2

IdealA == <<F(10), DecFloat(<<"7">>, <<"5">>), F(5), DecFloat(<<"2">>, <<"5">>), Zero>>

\* C3 as stated: in scenario A remaining is [10,10,10,6,6] and ideal is
\* [10,7.5,5,2.5,0].
C3_ScenarioA_Stated ==
    ScenarioA =>
      /\ burndown[1].remaining = <<F(10), F(10), F(10), F(6), F(6)>>
      /\ burndown[1].ideal = IdealA

\* C3 (amended): in scenario A remaining is [10,10,6,6,6] (an item closed on
\* day d lowers remaining from day d on) and ideal is [10,7.5,5,2.5,0].
C3_ScenarioA ==
    ScenarioA =>
      /\ burndown[1].remaining = <<F(10), F(10), F(6), F(6), F(6)>>
      /\ burndown[1].ideal = IdealA

C3_Witness == ScenarioA /\ pc = "done"

\* ---- C5 (under SpecBurn)
SprintDays == WholeDays(config.sprint_end - config.sprint_start)

\* C5 as stated: for every sprint_start and sprint_end the three lists have
\* whole_days(sprint_end - sprint_start) + 1 entries.
C5_LengthStated ==
    burndown # None =>
      /\ Len(burndown[1].dates) = SprintDays + 1
      /\ Len(burndown[1].remaining) = Len(burndown[1].dates)
      /\ Len(burndown[1].ideal) = Len(burndown[1].dates)

\* C5 (amended): the three lists have equal length; for sprint_end >=
\* sprint_start that length is whole_days(sprint_end - sprint_start) + 1 and
\* the dates run daily from sprint_start to sprint_end; a zero-length sprint
\* yields one point; for sprint_end < sprint_start the lists are empty.
C5_Length ==
    burndown # None =>
      LET b == burndown[1]
          n == Len(b.dates)
      IN /\ Len(b.remaining) = n /\ Len(b.ideal) = n
         /\ config.sprint_end >= config.sprint_start =>
              /\ n = SprintDays + 1
              /\ \A i \in 1..n : b.dates[i] = config.sprint_start + (i - 1) * TicksPerDay
              /\ b.dates[n] <= config.sprint_end
              /\ b.dates[n] + TicksPerDay > config.sprint_end
         /\ config.sprint_end = config.sprint_start => n = 1
         /\ config.sprint_end < config.sprint_start => n = 0

\* the zero-length sprint
C5_Witness ==
    /\ pc = "done"
    /\ config.sprint_end = config.sprint_start
    /\ Len(burndown[1].dates) = 1 /\ Len(burndown[1].ideal) = 1

\* ---- C6 (under SpecBurn)
NonIncreasing(xs) == \A k \in 1..(Len(xs) - 1) : FLe(xs[k + 1], xs[k])
NonNegative(xs) == \A k \in DOMAIN xs : FGe(xs[k], Zero)

\* C6: remaining and ideal are both non-increasing over the dates and >= 0.
C6_CurvesNonIncreasing ==
    burndown # None =>
      /\ NonIncreasing(burndown[1].remaining) /\ NonNegative(burndown[1].remaining)
      /\ NonIncreasing(burndown[1].ideal) /\ NonNegative(burndown[1].ideal)

\* ---- C7 (under SpecBurn)
\* daily_rate * days == total, with days and daily_rate as the claim defines them
RateIsExact ==
    LET total == burndown[1].total_points
        days == Max(1, SprintDays)
    IN FEq(FMulInt(FDivInt(total, days), days), total)

Last(xs) == xs[Len(xs)]

\* C7 as stated: whenever daily_rate * days == total, the ideal value at the
\* last date is 0, the zero-length sprint included.
C7_IdealEndsAtZeroStated ==
    (burndown # None /\ burndown[1].ideal # <<>> /\ RateIsExact) =>
      Last(burndown[1].ideal) = Zero

\* C7 (amended): whenever daily_rate * days == total, the ideal value at the
\* last date is 0 for every sprint of at least one whole day.
C7_IdealEndsAtZero ==
    (burndown # None /\ RateIsExact /\ SprintDays >= 1) =>
      Last(burndown[1].ideal) = Zero

\* a four-day sprint of 10 points
C7_Witness ==
    /\ pc = "done"
    /\ SprintDays = 4 /\ burndown[1].total_points = F(10) /\ RateIsExact
    /\ burndown[1].ideal[1] = F(10) /\ Last(burndown[1].ideal) = Zero

====
